---- MODULE Spec2Model ----
(***************************************************************************)
(* Review scheduling core of the spaced-repetition tool: the SM-2 update   *)
(* (SM2Calculator), its MCQ variant, and the review of a stored item by    *)
(* the three controllers.                                                  *)
(*                                                                         *)
(* Ease factors are Python floats that the program only ever holds with    *)
(* two decimals (the schema default 2.5, then round(x, 2) on every write). *)
(* They are modelled as integers counting thousandths: 2.5 is 2500, the    *)
(* floor 1.3 is 1300, the penalty 0.2 is 200.  round(x, 2) is a real       *)
(* rounding of thousandths to the nearest multiple of 10.                  *)
(*                                                                         *)
(* Python's round() of a float product: away from a tie the float error    *)
(* (about 1e-16 relative) cannot change the nearest integer; at an exact   *)
(* decimal tie the float lies on either side, so both neighbours are       *)
(* outcomes.  The engine's operators therefore return the SET of results   *)
(* the interpreter can produce.                                            *)
(***************************************************************************)
EXTENDS Integers, FiniteSets, Sequences, TLC

VARIABLES
    kind,               \* which table the stored item lives in
    interval,           \* stored column interval (days)
    ease_factor,        \* stored column ease_factor (thousandths)
    days_since_review,  \* date.today() - last_reviewed in days, or Never
    pc,                 \* position of the engine caller
    args,               \* arguments of the engine call
    result,             \* what the engine call returned
    store,              \* the table of the item kind: id -> row
    held,               \* per CLI process, the item object it has loaded
    today,              \* date.today(): the local date, as a day number
    utc_today,          \* DATE('now') of SQLite: the UTC date
    tz,                 \* sign of the machine's offset from UTC
    last_op,            \* the last operation on the store and its outcome
    session,            \* the EvaluationSession of a challenge review
    last_call,          \* the last EvaluationService call and its outcome
    review              \* ChallengeController.review_challenges under way

store_vars == <<store, held, today, utc_today, tz, last_op>>
eval_vars == <<session, last_call, review>>

vars == <<kind, interval, ease_factor, days_since_review, pc, args, result,
          store_vars, eval_vars>>

----------------------------------------------------------------------------
(* Bounds of the model.                                                    *)

\* reviews are explored while the stored interval is at most this
MaxInterval == 27
\* days the clock may run past an item's due date
MaxOverdue == 1
\* largest current_interval handed to the engine when it is called directly
MaxCalcInterval == 12
\* latest date handed to is_overdue and days_overdue
MaxDate == 14
\* rows ever inserted into the table
MaxItems == 1
\* days the clocks of the store run
MaxDay == 2
\* messages an evaluation session is followed up to
MaxMessages == 9

----------------------------------------------------------------------------
(* Program constants.                                                      *)

\* Field(default=2.5, ge=1.3, le=3.0) of the three item models
DefaultEase == 2500
EaseMin == 1300
EaseMax == 3000
\* Field(default=1, ge=1)
DefaultInterval == 1
IntervalMin == 1

Never == -1
Kinds == {"question", "challenge", "mcq"}
Ratings == 0..3
valid_confidence == {"low", "medium", "high"}

Max(a, b) == IF a >= b THEN a ELSE b

\* two CLI processes may run against the same database file
Processes == {1, 2}

\* a process that has loaded no item object
NoObject ==
    [id |-> 0, last_reviewed |-> Never, interval |-> 0, ease_factor |-> 0,
     answer |-> <<>>, pc |-> "none"]

\* a row removed by DELETE; its id is never handed out again (AUTOINCREMENT)
Deleted ==
    [content |-> 0, testcases |-> 0, last_reviewed |-> Never,
     interval |-> 0, ease_factor |-> 0]

NoOp == [op |-> "none", p |-> 0, id |-> 0, outcome |-> "none", listing |-> <<>>]

\* the store while the engine alone is exercised
StoreIdle ==
    /\ store = <<>>
    /\ held = [p \in Processes |-> NoObject]
    /\ today = 0
    /\ utc_today = 0
    /\ tz = 0
    /\ last_op = NoOp

\* Optional[float] = None
None == -1

\* EvaluationSession(): messages [], both grades None, iteration 0
NewSession ==
    [messages |-> <<>>, first_grade |-> None, current_grade |-> None,
     iteration |-> 0]

NoCall == [op |-> "none", outcome |-> "none", grade |-> None]

\* review_challenges not entered.  has_api_methods: the view object offers
\* the methods the API flow calls; is_configured and use_clipboard_fallback
\* are the Config fields; workspace: setup_challenge_workspace returned;
\* cleanups counts cleanup_workspace calls; evaluated lists the grades the
\* service returned; marks lists the mark_reviewed calls of the controller
NoReview ==
    [pc |-> "idle", has_api_methods |-> FALSE, is_configured |-> FALSE,
     use_clipboard_fallback |-> FALSE, workspace |-> FALSE, cleanups |-> 0,
     evaluator |-> "none", action |-> "none", evaluated |-> <<>>,
     marks |-> <<>>, error |-> "none"]

\* no challenge evaluation under way
EvalIdle ==
    /\ session = NewSession
    /\ last_call = NoCall
    /\ review = NoReview

----------------------------------------------------------------------------
(* Python's round().                                                       *)

\* The integers round(num / den) can return: the nearest one, and both
\* neighbours at a tie (the float is on either side of it, or on it).
RoundNearest(num, den) ==
    LET q == num \div den
        r == num % den
    IN  IF 2 * r < den THEN {q}
        ELSE IF 2 * r > den THEN {q + 1}
        ELSE {q, q + 1}

\* Variant of round_int that truncates, as int() does (C24 must notice it).
round_int_truncating(x) == {x \div 1000}

\* round(x) of a float x given in thousandths: an int
round_int(x) == RoundNearest(x, 1000)

\* round(x, 2) of a float x given in thousandths: thousandths again
round_2(x) == {10 * h : h \in RoundNearest(x, 10)}

----------------------------------------------------------------------------
(* SM2Calculator                                                           *)

\* Variant of ease_adjustment with the sign of the rating term flipped
\* (C6 must notice it).
ease_adjustment_sign_flipped(rating) ==
    100 + (3 - rating) * (80 + (3 - rating) * 20)

\* Variant of ease_adjustment with the confidence-weighted table +0.05,
\* +0.10, +0.10 in place of the formula (C10 must notice it).
ease_adjustment_weighted(rating) ==
    IF rating = 1 THEN 50 ELSE 100

\* 0.1 - (3 - rating) * (0.08 + (3 - rating) * 0.02), in thousandths
ease_adjustment(rating) == 100 - (3 - rating) * (80 + (3 - rating) * 20)

\* Variant of forgot_review that resets the interval to 0 (C3 must notice
\* it).
forgot_review_to_zero(current_interval, current_ease_factor) ==
    {[interval |-> 0, ease_factor |-> e] :
        e \in round_2(Max(1300, current_ease_factor - 200))}

\* Variant of forgot_review without the 1.3 floor (C4 must notice it).
forgot_review_no_floor(current_interval, current_ease_factor) ==
    {[interval |-> 1, ease_factor |-> e] :
        e \in round_2(current_ease_factor - 200)}

\* the rating-0 branch
forgot_review(current_interval, current_ease_factor) ==
    LET new_interval == 1
        new_ease_factor == Max(1300, current_ease_factor - 200)
    IN  {[interval |-> new_interval, ease_factor |-> e] :
            e \in round_2(new_ease_factor)}

\* Variant of recall_review that clamps the ease factor to [1.3, 3.0]
\* (C5 must notice it).
recall_review_clamped(rating, current_interval, current_ease_factor) ==
    LET raised == current_ease_factor + ease_adjustment(rating)
        new_ease_factor ==
            IF raised < 1300 THEN 1300
            ELSE IF raised > 3000 THEN 3000 ELSE raised
    IN  {[interval |-> Max(1, n), ease_factor |-> e] :
            n \in round_int(current_interval * new_ease_factor),
            e \in round_2(new_ease_factor)}

\* the branch of ratings 1, 2, 3
recall_review(rating, current_interval, current_ease_factor) ==
    LET new_ease_factor == current_ease_factor + ease_adjustment(rating)
    IN  {[interval |-> Max(1, n), ease_factor |-> e] :
            n \in round_int(current_interval * new_ease_factor),
            e \in round_2(new_ease_factor)}

\* what a raise ValueError(...) hands to the caller instead of a result
ValueError == [raised |-> "ValueError"]

\* Variant of rating_out_of_range that only rejects ratings above 3 (C11
\* must notice it).
rating_above_range(rating) == rating > 3

\* if not 0 <= rating <= 3
rating_out_of_range(rating) == ~(0 <= rating /\ rating <= 3)

calculate_next_review(rating, current_interval, current_ease_factor) ==
    IF rating_out_of_range(rating)
    THEN {ValueError}
    ELSE IF rating = 0
    THEN forgot_review(current_interval, current_ease_factor)
    ELSE recall_review(rating, current_interval, current_ease_factor)

\* Variant of sm2_rating that ignores the confidence of a correct answer
\* (C7 must notice it).
sm2_rating_ignores_confidence(is_correct, confidence_level) ==
    IF is_correct THEN 3 ELSE 0

\* (is_correct, confidence_level) to the synthetic rating
sm2_rating(is_correct, confidence_level) ==
    IF is_correct
    THEN IF confidence_level = "high" THEN 3
         ELSE IF confidence_level = "medium" THEN 2
         ELSE 1
    ELSE 0

\* Variant of misconception that does not clamp again to 1.3 (C8 must
\* notice it).
misconception_unclamped(is_correct, confidence_level, new_ease_factor) ==
    IF ~is_correct /\ confidence_level = "high"
    THEN new_ease_factor - 100
    ELSE new_ease_factor

\* Variant of misconception that penalises every wrong answer (C9 must
\* notice it).
misconception_any_wrong(is_correct, confidence_level, new_ease_factor) ==
    IF ~is_correct
    THEN Max(1300, new_ease_factor - 100)
    ELSE new_ease_factor

\* the extra penalty of a wrong answer given with high confidence
misconception(is_correct, confidence_level, new_ease_factor) ==
    IF ~is_correct /\ confidence_level = "high"
    THEN Max(1300, new_ease_factor - 100)
    ELSE new_ease_factor

calculate_mcq_review(is_correct, confidence_level, current_interval, current_ease_factor) ==
    IF confidence_level \notin valid_confidence
    THEN {ValueError}
    ELSE
    UNION {
        {[interval |-> r.interval, ease_factor |-> e] :
            e \in round_2(misconception(is_correct, confidence_level,
                                        r.ease_factor))} :
        r \in calculate_next_review(sm2_rating(is_correct, confidence_level),
                                    current_interval, current_ease_factor)}

----------------------------------------------------------------------------
(* Due dates.  A date is a day number; None (never reviewed) is Never.     *)

\* float("inf"): a days_overdue above every number of days
Infinity == [infinite |-> TRUE, days |-> 0]

\* Variant of is_overdue that is not yet true on the due date itself (C12
\* must notice it).
is_overdue_after_due(last_reviewed_date, interval_days, current_date) ==
    IF last_reviewed_date = Never
    THEN TRUE
    ELSE current_date > last_reviewed_date + interval_days

is_overdue(last_reviewed_date, interval_days, current_date) ==
    IF last_reviewed_date = Never
    THEN TRUE
    ELSE LET next_review_date == last_reviewed_date + interval_days
         IN  current_date >= next_review_date

\* Variant of days_overdue without the max(0.0, ...) (C13 must notice it).
days_overdue_signed(last_reviewed_date, interval_days, current_date) ==
    IF last_reviewed_date = Never
    THEN Infinity
    ELSE [infinite |-> FALSE,
          days |-> current_date - (last_reviewed_date + interval_days)]

days_overdue(last_reviewed_date, interval_days, current_date) ==
    IF last_reviewed_date = Never
    THEN Infinity
    ELSE LET next_review_date == last_reviewed_date + interval_days
             days_diff == current_date - next_review_date
         IN  [infinite |-> FALSE, days |-> Max(0, days_diff)]

----------------------------------------------------------------------------
(* db/operations.py: the older review of an MCQ question, which computes   *)
(* the update itself instead of calling SM2Calculator.                     *)

\* penalty of a wrong answer: base_penalty, times 1.5 with high confidence
legacy_penalty(confidence_level) ==
    IF confidence_level = "high" THEN (200 * 15) \div 10 ELSE 200

\* ease adjustment of a correct answer
legacy_ease_adjustment(confidence_level, rating) ==
    IF confidence_level = "low" THEN 50
    ELSE IF confidence_level = "medium" THEN 100
    ELSE 100 - (3 - rating) * (80 + (3 - rating) * 20)

mark_reviewed_mcq(is_correct, confidence_level, current_interval, current_ease_factor) ==
    LET rating == sm2_rating(is_correct, confidence_level)
    IN  IF rating = 0
        THEN LET new_ease_factor ==
                    Max(1300, current_ease_factor
                                - legacy_penalty(confidence_level))
             IN  {[interval |-> 1, ease_factor |-> e] :
                    e \in round_2(new_ease_factor)}
        ELSE LET new_ease_factor ==
                    current_ease_factor
                        + legacy_ease_adjustment(confidence_level, rating)
             IN  {[interval |-> Max(1, n), ease_factor |-> e] :
                    n \in round_int(current_interval * new_ease_factor),
                    e \in round_2(new_ease_factor)}

----------------------------------------------------------------------------
(* The stored item and its review.                                         *)

\* _row_to_question / _row_to_mcq_question / _row_to_challenge build the
\* model object, whose Field constraints reject the row otherwise
row_loads ==
    /\ interval >= IntervalMin
    /\ ease_factor >= EaseMin
    /\ ease_factor <= EaseMax

\* WHERE clause of QuestionRepository.get_due_questions
question_is_due ==
    \/ days_since_review = Never
    \/ days_since_review >= interval

\* WHERE clause of MCQRepository.get_due_questions and
\* ChallengeRepository.get_due_challenges: a NULL last_reviewed compares
\* as NULL, which selects nothing
dated_is_due ==
    /\ days_since_review # Never
    /\ days_since_review >= interval

\* mark_reviewed of the three repositories: the three columns written
mark_reviewed(new) ==
    /\ days_since_review' = 0
    /\ interval' = new.interval
    /\ ease_factor' = new.ease_factor

NoArgs ==
    [fn |-> "none", rating |-> 0, is_correct |-> FALSE,
     confidence_level |-> "low", current_interval |-> 0,
     current_ease_factor |-> 0]
NoResult == [interval |-> 0, ease_factor |-> 0]

\* a new row: the questions table defaults last_reviewed to NULL, the
\* Challenge and MCQQuestion models default it to date.today()
Init ==
    /\ kind \in Kinds
    /\ interval = DefaultInterval
    /\ ease_factor = DefaultEase
    /\ days_since_review = IF kind = "question" THEN Never ELSE 0
    /\ pc = "idle"
    /\ args = NoArgs
    /\ result = NoResult
    /\ StoreIdle
    /\ EvalIdle

\* QuestionController.review_questions, through to mark_reviewed
review_questions(rating) ==
    /\ kind = "question"
    /\ question_is_due
    /\ row_loads
    /\ interval <= MaxInterval
    /\ \E new \in calculate_next_review(rating, interval, ease_factor) :
            mark_reviewed(new)
    /\ UNCHANGED <<kind, pc, args, result>>
    /\ UNCHANGED <<store_vars, eval_vars>>

\* ChallengeController.review_challenges, through to mark_reviewed
review_challenges(rating) ==
    /\ kind = "challenge"
    /\ dated_is_due
    /\ row_loads
    /\ interval <= MaxInterval
    /\ \E new \in calculate_next_review(rating, interval, ease_factor) :
            mark_reviewed(new)
    /\ UNCHANGED <<kind, pc, args, result>>
    /\ UNCHANGED <<store_vars, eval_vars>>

\* one round of MCQController.review_mcq_questions
review_mcq_questions(is_correct, confidence_level) ==
    /\ kind = "mcq"
    /\ dated_is_due
    /\ row_loads
    /\ interval <= MaxInterval
    /\ \E new \in calculate_mcq_review(is_correct, confidence_level,
                                       interval, ease_factor) :
            mark_reviewed(new)
    /\ UNCHANGED <<kind, pc, args, result>>
    /\ UNCHANGED <<store_vars, eval_vars>>

\* midnight passes: date.today() moves on by one day
AdvanceDay ==
    /\ days_since_review # Never
    /\ days_since_review < interval + MaxOverdue
    /\ days_since_review' = days_since_review + 1
    /\ UNCHANGED <<kind, interval, ease_factor, pc, args, result>>
    /\ UNCHANGED <<store_vars, eval_vars>>

Next ==
    \/ \E rating \in Ratings : review_questions(rating)
    \/ \E rating \in Ratings : review_challenges(rating)
    \/ \E is_correct \in BOOLEAN, confidence_level \in valid_confidence :
            review_mcq_questions(is_correct, confidence_level)
    \/ AdvanceDay

Spec == Init /\ [][Next]_vars

----------------------------------------------------------------------------
(* MCQQuestion: the validation pydantic runs at construction.  A required  *)
(* str field is a string, an Optional[str] field is NoneValue or           *)
(* Str(text).                                                              *)

NoneValue == [none |-> TRUE]
Str(text) == [str |-> text]

ValidationError == [raised |-> "ValidationError"]

\* the texts explored for an option: empty, whitespace, a word; none is a
\* word with padding, so strip() only changes the whitespace one
OptionTexts == {"", " ", "C"}
strip(text) == IF text = " " THEN "" ELSE text

\* Field(regex="^(...)$") is checked with re.match, and $ also matches
\* before a newline that ends the string
regex_match(alternatives, v) ==
    \E a \in alternatives : v = a \/ v = a \o "\n"

\* Python's truth value of an Optional[str]
truthy(v) == v # NoneValue /\ v.str # ""

\* @validator("option_a", "option_b"): Field(min_length=1), then not blank
required_options_not_empty(v) == v # "" /\ strip(v) # ""

\* @validator("option_c", "option_d")
optional_options_clean(v) ==
    IF truthy(v)
    THEN IF strip(v.str) # "" THEN Str(strip(v.str)) ELSE NoneValue
    ELSE v

\* @root_validator: TRUE when it returns the values, FALSE when it raises
validate_question_consistency(question_type, option_c, option_d, correct_option) ==
    IF question_type = "true_false"
    THEN /\ option_c = NoneValue /\ option_d = NoneValue
         /\ correct_option \in {"a", "b"}
    ELSE IF question_type = "mcq"
    THEN /\ truthy(option_c) /\ truthy(option_d)
         /\ correct_option \in {"a", "b", "c", "d"}
    ELSE TRUE

\* MCQQuestion(...): the field validators, then the root validator on the
\* cleaned values; any error raises ValidationError
MCQQuestion(question_type, option_a, option_c, option_d, correct_option) ==
    LET c == optional_options_clean(option_c)
        d == optional_options_clean(option_d)
        fields_valid ==
            /\ regex_match({"mcq", "true_false"}, question_type)
            /\ required_options_not_empty(option_a)
            /\ regex_match({"a", "b", "c", "d"}, correct_option)
    IN  IF /\ fields_valid
           /\ validate_question_consistency(question_type, c, d,
                                            correct_option)
        THEN [question_type |-> question_type, option_a |-> strip(option_a),
              option_c |-> c, option_d |-> d,
              correct_option |-> correct_option]
        ELSE ValidationError

\* MCQRepository.get_available_options: the letters offered
get_available_options(mcq_question) ==
    IF mcq_question.question_type = "mcq"
    THEN <<"a", "b", "c", "d">>
    ELSE <<"a", "b">>

----------------------------------------------------------------------------
(* ZAIClient.chat_completion.  A JSON value is tagged with its Python      *)
(* type; a dict is a function from its keys.                               *)

JsonNull == [t |-> "null"]
JsonStr(text) == [t |-> "str", text |-> text]
JsonList(items) == [t |-> "list", items |-> items]
JsonDict(items) == [t |-> "dict", items |-> items]
\* a body that json() cannot parse
NotJson == [t |-> "not_json"]

Returns(v) == [raised |-> "none", value |-> v]
Raises(error) == [raised |-> error, value |-> JsonNull]

\* v[name] for a string name
getitem_key(v, name) ==
    IF v.t = "dict"
    THEN IF name \in DOMAIN v.items
         THEN Returns(v.items[name]) ELSE Raises("KeyError")
    ELSE Raises("TypeError")

\* v[0]
getitem_first(v) ==
    IF v.t = "list"
    THEN IF Len(v.items) >= 1 THEN Returns(v.items[1]) ELSE Raises("IndexError")
    ELSE IF v.t = "dict" THEN Raises("KeyError")
    ELSE IF v.t = "str"
    THEN IF v.text # "" THEN Returns(JsonStr("c")) ELSE Raises("IndexError")
    ELSE Raises("TypeError")

\* data["choices"][0]["message"]["content"]
content_of(data) ==
    LET choices == getitem_key(data, "choices")
        first == IF choices.raised = "none"
                 THEN getitem_first(choices.value) ELSE choices
        message == IF first.raised = "none"
                   THEN getitem_key(first.value, "message") ELSE first
    IN  IF message.raised = "none"
        THEN getitem_key(message.value, "content") ELSE message

\* the except clauses of chat_completion
caught_as_api_error(error) ==
    error \in {"HTTPStatusError", "RequestError", "KeyError", "IndexError"}

\* the try block: post, raise_for_status, json(), the subscripts
chat_completion_try(response) ==
    IF response.transport # "ok" THEN Raises("RequestError")
    ELSE IF response.status >= 400 THEN Raises("HTTPStatusError")
    ELSE IF response.body = NotJson THEN Raises("JSONDecodeError")
    ELSE content_of(response.body)

chat_completion(response) ==
    LET r == chat_completion_try(response)
    IN  IF r.raised # "none" /\ caught_as_api_error(r.raised)
        THEN Raises("APIError")
        ELSE r

----------------------------------------------------------------------------
(* The engine called directly, on every valid input.                       *)

\* the ease factors an item model accepts that have two decimals
EaseGrid == {e \in EaseMin..EaseMax : e % 10 = 0}

NextReviewArgs ==
    [fn : {"calculate_next_review"}, rating : Ratings,
     is_correct : {FALSE}, confidence_level : {"low"},
     current_interval : IntervalMin..MaxCalcInterval,
     current_ease_factor : EaseGrid]

McqArgs ==
    [fn : {"calculate_mcq_review", "mark_reviewed_mcq"}, rating : {0},
     is_correct : BOOLEAN, confidence_level : valid_confidence,
     current_interval : IntervalMin..MaxCalcInterval,
     current_ease_factor : EaseGrid]

\* dates handed to is_overdue and days_overdue; None is Never
DueArgs ==
    [fn : {"is_overdue", "days_overdue"},
     last_reviewed_date : {Never} \cup 0..MaxDate,
     interval_days : IntervalMin..MaxCalcInterval,
     current_date : 0..MaxDate]

\* constructor arguments of MCQQuestion: the two types, each also with a
\* newline after it, and one that is neither
MCQQuestionArgs ==
    [fn : {"MCQQuestion"},
     question_type : {"mcq", "true_false", "mcq\n", "true_false\n",
                      "multiple_choice"},
     option_a : {"A", " "},
     option_c : {NoneValue} \cup {Str(t) : t \in OptionTexts},
     option_d : {NoneValue} \cup {Str(t) : t \in OptionTexts},
     correct_option : {"a", "b", "c", "d", "d\n", "e"}]

\* the message object of a reply
MessageBodies ==
    {JsonNull, JsonDict(<<>>), JsonDict("content" :> JsonNull),
     JsonDict("content" :> JsonStr("Test response"))}

\* the first element of choices
ChoiceBodies ==
    {JsonNull, JsonDict(<<>>)} \cup {JsonDict("message" :> m) : m \in MessageBodies}

\* what the server can answer with
ResponseBodies ==
    {NotJson, JsonNull, JsonList(<<>>), JsonDict(<<>>),
     JsonDict("unexpected" :> JsonStr("format")),
     JsonDict("choices" :> JsonNull), JsonDict("choices" :> JsonList(<<>>)),
     JsonDict("choices" :> JsonDict(<<>>)),
     JsonDict("choices" :> JsonStr("text"))}
    \cup {JsonDict("choices" :> JsonList(<<c>>)) : c \in ChoiceBodies}

ChatCompletionArgs ==
    [fn : {"chat_completion"},
     transport : {"ok", "RequestError"},
     status : {200, 401, 500},
     body : ResponseBodies]

InitCalc ==
    /\ kind = "question"
    /\ interval = DefaultInterval
    /\ ease_factor = DefaultEase
    /\ days_since_review = Never
    /\ pc = "ready"
    /\ args \in NextReviewArgs \cup McqArgs \cup DueArgs
                \cup MCQQuestionArgs \cup ChatCompletionArgs
    /\ result = NoResult
    /\ StoreIdle
    /\ EvalIdle

call_calculate_next_review ==
    /\ pc = "ready"
    /\ args.fn = "calculate_next_review"
    /\ result' \in calculate_next_review(args.rating, args.current_interval,
                                         args.current_ease_factor)
    /\ pc' = "returned"
    /\ UNCHANGED <<kind, interval, ease_factor, days_since_review, args>>
    /\ UNCHANGED <<store_vars, eval_vars>>

call_calculate_mcq_review ==
    /\ pc = "ready"
    /\ args.fn = "calculate_mcq_review"
    /\ result' \in calculate_mcq_review(args.is_correct,
                                        args.confidence_level,
                                        args.current_interval,
                                        args.current_ease_factor)
    /\ pc' = "returned"
    /\ UNCHANGED <<kind, interval, ease_factor, days_since_review, args>>
    /\ UNCHANGED <<store_vars, eval_vars>>

call_mark_reviewed_mcq ==
    /\ pc = "ready"
    /\ args.fn = "mark_reviewed_mcq"
    /\ result' \in mark_reviewed_mcq(args.is_correct, args.confidence_level,
                                     args.current_interval,
                                     args.current_ease_factor)
    /\ pc' = "returned"
    /\ UNCHANGED <<kind, interval, ease_factor, days_since_review, args>>
    /\ UNCHANGED <<store_vars, eval_vars>>

call_is_overdue ==
    /\ pc = "ready"
    /\ args.fn = "is_overdue"
    /\ result' = [overdue |-> is_overdue(args.last_reviewed_date,
                                          args.interval_days,
                                          args.current_date)]
    /\ pc' = "returned"
    /\ UNCHANGED <<kind, interval, ease_factor, days_since_review, args>>
    /\ UNCHANGED <<store_vars, eval_vars>>

call_days_overdue ==
    /\ pc = "ready"
    /\ args.fn = "days_overdue"
    /\ result' = days_overdue(args.last_reviewed_date, args.interval_days,
                               args.current_date)
    /\ pc' = "returned"
    /\ UNCHANGED <<kind, interval, ease_factor, days_since_review, args>>
    /\ UNCHANGED <<store_vars, eval_vars>>

call_MCQQuestion ==
    /\ pc = "ready"
    /\ args.fn = "MCQQuestion"
    /\ result' = MCQQuestion(args.question_type, args.option_a,
                              args.option_c, args.option_d,
                              args.correct_option)
    /\ pc' = "returned"
    /\ UNCHANGED <<kind, interval, ease_factor, days_since_review, args>>
    /\ UNCHANGED <<store_vars, eval_vars>>

call_chat_completion ==
    /\ pc = "ready"
    /\ args.fn = "chat_completion"
    /\ result' = chat_completion(args)
    /\ pc' = "returned"
    /\ UNCHANGED <<kind, interval, ease_factor, days_since_review, args>>
    /\ UNCHANGED <<store_vars, eval_vars>>

NextCalc ==
    \/ call_calculate_next_review
    \/ call_calculate_mcq_review
    \/ call_mark_reviewed_mcq
    \/ call_is_overdue
    \/ call_days_overdue
    \/ call_MCQQuestion
    \/ call_chat_completion

SpecCalc == InitCalc /\ [][NextCalc]_vars

----------------------------------------------------------------------------
(* Rating 0 applied again and again, each result fed back in.              *)

InitForgot ==
    /\ kind = "question"
    /\ interval = DefaultInterval
    /\ ease_factor = DefaultEase
    /\ days_since_review = Never
    /\ pc = "ready"
    /\ args \in {a \in NextReviewArgs : a.rating = 0}
    /\ result = NoResult
    /\ StoreIdle
    /\ EvalIdle

\* one turn of the loop: the call, then its result as the next input
forgot_again ==
    /\ \E new \in calculate_next_review(0, args.current_interval,
                                        args.current_ease_factor) :
        /\ result' = new
        /\ args' = [args EXCEPT !.current_interval = new.interval,
                                !.current_ease_factor = new.ease_factor]
    /\ pc' = "returned"
    /\ UNCHANGED <<kind, interval, ease_factor, days_since_review>>
    /\ UNCHANGED <<store_vars, eval_vars>>

NextForgot == forgot_again

SpecForgot == InitForgot /\ [][NextForgot]_vars /\ WF_vars(forgot_again)

----------------------------------------------------------------------------
(* The repositories over the table of one item kind, used by CLI processes *)
(* that each open their own connection for every statement.  Python reads  *)
(* the date with date.today() (local time); SQLite's DATE('now') and       *)
(* julianday('now') are UTC.                                               *)

\* ratings and confidence levels outside the accepted ones, as in the tests
InvalidRatings == {-1, 4}
InvalidConfidence == {"very_high"}

\* the valid answers explored at the store: the two ends of each scale
\* (the engine is explored on every rating in SpecCalc)
StoreRatings == {0, 3}
StoreConfidence == {"low", "high"}

LiveIds == {i \in DOMAIN store : store[i] # Deleted}

\* the scheduling fields of a row or of an object
triple(x) == <<x.last_reviewed, x.interval, x.ease_factor>>

\* Variant of new_row that leaves last_reviewed unset for every kind (C15
\* must notice it).
new_row_never ==
    [content |-> 0, testcases |-> 0, last_reviewed |-> Never,
     interval |-> DefaultInterval, ease_factor |-> DefaultEase]

\* the item as the add views construct it and as the repository's add
\* inserts it: only Question leaves last_reviewed unset
new_row ==
    [content |-> 0, testcases |-> 0,
     last_reviewed |-> IF kind = "question" THEN Never ELSE today,
     interval |-> DefaultInterval, ease_factor |-> DefaultEase]

\* the Field constraints checked when _row_to_question, _row_to_mcq_question
\* or _row_to_challenge builds the model object
row_validates(row) ==
    /\ row.interval >= IntervalMin
    /\ row.ease_factor >= EaseMin
    /\ row.ease_factor <= EaseMax

row_to_object(id) ==
    [id |-> id, last_reviewed |-> store[id].last_reviewed,
     interval |-> store[id].interval,
     ease_factor |-> store[id].ease_factor, answer |-> <<>>,
     pc |-> "selected"]

\* WHERE last_reviewed IS NULL
\*    OR DATE(last_reviewed, '+' || interval || ' days') <= DATE('now')
questions_due_where(row) ==
    \/ row.last_reviewed = Never
    \/ row.last_reviewed + row.interval <= utc_today

\* WHERE julianday('now')
\*       - julianday(DATE(last_reviewed, '+' || interval || ' days')) > 0
\* (NULL for a NULL last_reviewed; positive once the UTC clock is past the
\* midnight that starts the due date)
dated_due_where(row) ==
    /\ row.last_reviewed # Never
    /\ utc_today - (row.last_reviewed + row.interval) >= 0

due_where(row) ==
    IF kind = "question"
    THEN questions_due_where(row)
    ELSE dated_due_where(row)

\* ORDER BY ... DESC: the days past the due date, 999999 for NULL
due_order_key(row) ==
    IF row.last_reviewed = Never
    THEN 999999
    ELSE utc_today - (row.last_reviewed + row.interval)

\* the orders in which the query can return the rows ids: descending key,
\* rows of equal key in any order
due_orderings(ids) ==
    {s \in [1..Cardinality(ids) -> ids] :
        /\ \A i, j \in 1..Cardinality(ids) : i # j => s[i] # s[j]
        /\ \A i, j \in 1..Cardinality(ids) :
            i < j => due_order_key(store[s[i]]) >= due_order_key(store[s[j]])}

Op(op, p, id, outcome, listing) ==
    [op |-> op, p |-> p, id |-> id, outcome |-> outcome, listing |-> listing]

engine_unchanged ==
    UNCHANGED <<kind, interval, ease_factor, days_since_review, pc, args,
                result, eval_vars>>

InitStore ==
    /\ kind \in Kinds
    /\ interval = DefaultInterval
    /\ ease_factor = DefaultEase
    /\ days_since_review = Never
    /\ pc = "idle"
    /\ args = NoArgs
    /\ result = NoResult
    /\ store = <<>>
    /\ held = [p \in Processes |-> NoObject]
    /\ today = 0
    /\ utc_today = 0
    /\ tz \in {-1, 0, 1}
    /\ last_op = NoOp
    /\ EvalIdle

\* the add handlers: build the model object, INSERT it
add ==
    /\ Cardinality(DOMAIN store) < MaxItems
    /\ LET id == Cardinality(DOMAIN store) + 1
       IN  /\ store' = store @@ (id :> new_row)
           /\ last_op' = Op("add", 0, id, "ok", <<>>)
    /\ UNCHANGED <<held, today, utc_today, tz>>
    /\ engine_unchanged

\* first half of a review handler: the due query, then the user's choice
\* of one of the listed items (0: none listed, or cancelled)
get_due(p) ==
    /\ LET due == {i \in LiveIds : due_where(store[i])}
       IN  IF \E i \in due : ~row_validates(store[i])
           THEN /\ held' = [held EXCEPT ![p] = NoObject]
                /\ last_op' = Op("get_due", p, 0, "Exception", <<>>)
           ELSE \E listing \in due_orderings(due), id \in due \cup {0} :
                /\ held' = [held EXCEPT ![p] =
                                IF id = 0 THEN NoObject ELSE row_to_object(id)]
                /\ last_op' = Op("get_due", p, id, "ok", listing)
    /\ UNCHANGED <<store, today, utc_today, tz>>
    /\ engine_unchanged

\* mark_reviewed of the three repositories after the engine call: a raise
\* of the engine leaves before any assignment; otherwise the object gets
\* the three fields, then UPDATE ... WHERE id = ? writes them, and no row
\* affected raises after the object was changed
mark_reviewed_with(p, answer, results) ==
    LET obj == held[p]
    IN  \E new \in results :
            IF new = ValueError
            THEN /\ held' = [held EXCEPT ![p].answer = answer,
                                         ![p].pc = "raised"]
                 /\ store' = store
                 /\ last_op' = Op("mark_reviewed", p, obj.id, "ValueError", <<>>)
            ELSE /\ held' = [held EXCEPT ![p] =
                                [obj EXCEPT !.last_reviewed = today,
                                            !.interval = new.interval,
                                            !.ease_factor = new.ease_factor,
                                            !.answer = answer,
                                            !.pc = IF obj.id \in LiveIds
                                                   THEN "done" ELSE "raised"]]
                 /\ IF obj.id \in LiveIds
                    THEN /\ store' = [store EXCEPT ![obj.id] =
                                        [@ EXCEPT !.last_reviewed = today,
                                                  !.interval = new.interval,
                                                  !.ease_factor = new.ease_factor]]
                         /\ last_op' = Op("mark_reviewed", p, obj.id, "ok", <<>>)
                    ELSE /\ store' = store
                         /\ last_op' = Op("mark_reviewed", p, obj.id, "Exception", <<>>)

\* second half of QuestionController.review_questions
QuestionRepository_mark_reviewed(p, rating) ==
    /\ kind = "question"
    /\ held[p].pc = "selected"
    /\ mark_reviewed_with(p, <<rating>>,
                          calculate_next_review(rating, held[p].interval,
                                                held[p].ease_factor))
    /\ UNCHANGED <<today, utc_today, tz>>
    /\ engine_unchanged

\* second half of ChallengeController.review_challenges
ChallengeRepository_mark_reviewed(p, rating) ==
    /\ kind = "challenge"
    /\ held[p].pc = "selected"
    /\ mark_reviewed_with(p, <<rating>>,
                          calculate_next_review(rating, held[p].interval,
                                                held[p].ease_factor))
    /\ UNCHANGED <<today, utc_today, tz>>
    /\ engine_unchanged

\* second half of one round of MCQController.review_mcq_questions
MCQRepository_mark_reviewed(p, is_correct, confidence_level) ==
    /\ kind = "mcq"
    /\ held[p].pc = "selected"
    /\ mark_reviewed_with(p, <<is_correct, confidence_level>>,
                          calculate_mcq_review(is_correct, confidence_level,
                                               held[p].interval,
                                               held[p].ease_factor))
    /\ UNCHANGED <<today, utc_today, tz>>
    /\ engine_unchanged

\* get_all builds an object of every row
get_all_loads == \A i \in LiveIds : row_validates(store[i])

\* the list handlers
get_all ==
    /\ last_op' = Op("get_all", 0, 0,
                     IF get_all_loads THEN "ok" ELSE "Exception", <<>>)
    /\ UNCHANGED <<store, held, today, utc_today, tz>>
    /\ engine_unchanged

\* the update handlers: get_all, the user's choice and new text, then
\* UPDATE ... SET <content columns> WHERE id = ?
update(id) ==
    /\ id \in LiveIds
    /\ IF get_all_loads
       THEN /\ store' = [store EXCEPT ![id].content = 1 - @]
            /\ last_op' = Op("update", 0, id, "ok", <<>>)
       ELSE /\ store' = store
            /\ last_op' = Op("update", 0, id, "Exception", <<>>)
    /\ UNCHANGED <<held, today, utc_today, tz>>
    /\ engine_unchanged

\* ChallengeController.add_testcases: the challenges that have no test
\* cases are loaded, then UPDATE challenges SET testcases = ? WHERE id = ?
update_testcases(id) ==
    /\ kind = "challenge"
    /\ id \in LiveIds
    /\ store[id].testcases = 0
    /\ IF \A i \in LiveIds : store[i].testcases = 0 => row_validates(store[i])
       THEN /\ store' = [store EXCEPT ![id].testcases = 1]
            /\ last_op' = Op("update_testcases", 0, id, "ok", <<>>)
       ELSE /\ store' = store
            /\ last_op' = Op("update_testcases", 0, id, "Exception", <<>>)
    /\ UNCHANGED <<held, today, utc_today, tz>>
    /\ engine_unchanged

\* the delete handlers: DELETE FROM ... WHERE id = ?
delete(id) ==
    /\ id \in LiveIds
    /\ get_all_loads
    /\ store' = [store EXCEPT ![id] = Deleted]
    /\ last_op' = Op("delete", 0, id, "ok", <<>>)
    /\ UNCHANGED <<held, today, utc_today, tz>>
    /\ engine_unchanged

\* midnight on a machine whose local time is UTC
midnight ==
    /\ tz = 0
    /\ today < MaxDay
    /\ today' = today + 1
    /\ utc_today' = utc_today + 1
    /\ last_op' = Op("midnight", 0, 0, "ok", <<>>)
    /\ UNCHANGED <<store, held, tz>>
    /\ engine_unchanged

\* local midnight: first of the two east of UTC, second west of it
local_midnight ==
    /\ tz # 0
    /\ today < MaxDay
    /\ IF tz = 1 THEN today = utc_today ELSE today < utc_today
    /\ today' = today + 1
    /\ last_op' = Op("midnight", 0, 0, "ok", <<>>)
    /\ UNCHANGED <<store, held, utc_today, tz>>
    /\ engine_unchanged

\* UTC midnight: first of the two west of UTC, second east of it
utc_midnight ==
    /\ tz # 0
    /\ utc_today < MaxDay
    /\ IF tz = -1 THEN utc_today = today ELSE utc_today < today
    /\ utc_today' = utc_today + 1
    /\ last_op' = Op("midnight", 0, 0, "ok", <<>>)
    /\ UNCHANGED <<store, held, today, tz>>
    /\ engine_unchanged

\* one CLI process: reviews and the passing of time
NextStore ==
    \/ add
    \/ get_due(1)
    \/ \E rating \in StoreRatings \cup InvalidRatings :
            QuestionRepository_mark_reviewed(1, rating)
    \/ \E rating \in StoreRatings \cup InvalidRatings :
            ChallengeRepository_mark_reviewed(1, rating)
    \/ \E is_correct \in BOOLEAN, confidence_level \in StoreConfidence \cup InvalidConfidence :
            MCQRepository_mark_reviewed(1, is_correct, confidence_level)
    \/ midnight
    \/ local_midnight
    \/ utc_midnight

SpecStore == InitStore /\ [][NextStore]_vars

----------------------------------------------------------------------------
(* The store with its content operations and the older db layer.           *)

\* the ease factor handed to update_ease_factor (its docstring allows 0-3)
LegacyEase == {2000}

\* db/operations.py update_ease_factor: UPDATE questions SET ease_factor
update_ease_factor(question_id, new_ease_factor) ==
    /\ kind = "question"
    /\ question_id \in LiveIds
    /\ \E e \in round_2(new_ease_factor) :
            store' = [store EXCEPT ![question_id].ease_factor = e]
    /\ last_op' = Op("update_ease_factor", 0, question_id, "ok", <<>>)
    /\ UNCHANGED <<held, today, utc_today, tz>>
    /\ engine_unchanged

InitEdit ==
    /\ InitStore
    /\ tz = 0

NextEdit ==
    \/ add
    \/ get_due(1)
    \/ \E rating \in StoreRatings : QuestionRepository_mark_reviewed(1, rating)
    \/ \E rating \in StoreRatings : ChallengeRepository_mark_reviewed(1, rating)
    \/ \E is_correct \in BOOLEAN, confidence_level \in StoreConfidence :
            MCQRepository_mark_reviewed(1, is_correct, confidence_level)
    \/ get_all
    \/ \E id \in DOMAIN store : update(id)
    \/ \E id \in DOMAIN store : update_testcases(id)
    \/ \E id \in DOMAIN store : delete(id)
    \/ \E id \in DOMAIN store, e \in LegacyEase : update_ease_factor(id, e)
    \/ midnight

SpecEdit == InitEdit /\ [][NextEdit]_vars

----------------------------------------------------------------------------
(* Two CLI processes reviewing on the same day the one item that is due.   *)

\* the item was added the day before
InitRace ==
    /\ kind \in Kinds
    /\ interval = DefaultInterval
    /\ ease_factor = DefaultEase
    /\ days_since_review = Never
    /\ pc = "idle"
    /\ args = NoArgs
    /\ result = NoResult
    /\ store = <<[content |-> 0, testcases |-> 0,
                  last_reviewed |-> IF kind = "question" THEN Never ELSE 0,
                  interval |-> DefaultInterval, ease_factor |-> DefaultEase]>>
    /\ held = [p \in Processes |-> NoObject]
    /\ today = 1
    /\ utc_today = 1
    /\ tz = 0
    /\ last_op = NoOp
    /\ EvalIdle

NextRace ==
    \/ \E p \in Processes : get_due(p)
    \/ \E p \in Processes, rating \in Ratings :
            QuestionRepository_mark_reviewed(p, rating)
    \/ \E p \in Processes, rating \in Ratings :
            ChallengeRepository_mark_reviewed(p, rating)
    \/ \E p \in Processes, is_correct \in BOOLEAN,
          confidence_level \in valid_confidence :
            MCQRepository_mark_reviewed(p, is_correct, confidence_level)

SpecRace == InitRace /\ [][NextRace]_vars

----------------------------------------------------------------------------
(* The evaluation session of a challenge review and the service that       *)
(* drives it.  A message is its role; a grade is a float with one decimal, *)
(* counted in tenths (2.7 is 27).                                          *)

\* grades _extract_grade can hand back: 0.0, 1.5, 2.7, 3.0
Grades == {0, 15, 27, 30}

\* how a service call can end: chat_completion raises APIError; the reply
\* is empty, which Message(content=...) rejects; the reply holds no grade,
\* which _extract_grade rejects; or the evaluation is recorded
Outcomes == {"APIError", "ValidationError", "ValueError", "ok"}

add_system_prompt(s) == [s EXCEPT !.messages = Append(@, "system")]

add_user_message(s) == [s EXCEPT !.messages = Append(@, "user")]

\* Variant of add_assistant_response that files the reply as a user
\* message (C20 must notice it).
add_assistant_response_as_user(s) ==
    [s EXCEPT !.messages = Append(@, "user")]

add_assistant_response(s) == [s EXCEPT !.messages = Append(@, "assistant")]

\* Variant of record_evaluation that keeps the latest grade as first_grade
\* (C18 must notice it).
record_evaluation_overwrites(s, grade) ==
    [s EXCEPT !.iteration = @ + 1,
              !.current_grade = grade,
              !.first_grade = grade]

record_evaluation(s, grade) ==
    [s EXCEPT !.iteration = @ + 1,
              !.current_grade = grade,
              !.first_grade = IF @ = None THEN grade ELSE @]

\* Variant of get_sm2_grade that returns the latest grade (C21 must notice
\* it).
get_sm2_grade_latest(s) ==
    IF s.first_grade = None
    THEN ValueError
    ELSE [returns |-> s.current_grade]

\* raises without a first grade, else returns it as it is
get_sm2_grade(s) ==
    IF s.first_grade = None
    THEN ValueError
    ELSE [returns |-> s.first_grade]

Call(op, outcome, grade) == [op |-> op, outcome |-> outcome, grade |-> grade]

store_unchanged ==
    UNCHANGED <<kind, interval, ease_factor, days_since_review, pc, args,
                result, store_vars>>

InitEval ==
    /\ kind = "challenge"
    /\ interval = DefaultInterval
    /\ ease_factor = DefaultEase
    /\ days_since_review = 0
    /\ pc = "idle"
    /\ args = NoArgs
    /\ result = NoResult
    /\ StoreIdle
    /\ EvalIdle

\* EvaluationService.create_session
create_session ==
    /\ session = NewSession
    /\ session' = add_system_prompt(NewSession)
    /\ last_call' = Call("create_session", "ok", None)
    /\ UNCHANGED review
    /\ store_unchanged

\* body shared by evaluate, dispute and refactor_evaluate: the prompt is
\* appended, the API is called, its reply is appended and parsed, the
\* grade is recorded
ask(op, outcome, grade) ==
    /\ session.messages # <<>>
    /\ Len(session.messages) + 2 <= MaxMessages
    /\ LET asked == add_user_message(session)
           answered == add_assistant_response(asked)
       IN  session' = IF outcome \in {"APIError", "ValidationError"}
                      THEN asked
                      ELSE IF outcome = "ValueError"
                      THEN answered
                      ELSE record_evaluation(answered, grade)
    /\ last_call' = Call(op, outcome, IF outcome = "ok" THEN grade ELSE None)
    /\ store_unchanged

evaluate == \E outcome \in Outcomes, grade \in Grades :
    ask("evaluate", outcome, grade) /\ UNCHANGED review

dispute == \E outcome \in Outcomes, grade \in Grades :
    ask("dispute", outcome, grade) /\ UNCHANGED review

refactor_evaluate == \E outcome \in Outcomes, grade \in Grades :
    ask("refactor_evaluate", outcome, grade) /\ UNCHANGED review

\* session.get_sm2_grade() as the controller calls it
call_get_sm2_grade ==
    /\ session.messages # <<>>
    /\ LET r == get_sm2_grade(session)
       IN  last_call' = IF r = ValueError
                        THEN Call("get_sm2_grade", "ValueError", None)
                        ELSE Call("get_sm2_grade", "ok", r.returns)
    /\ UNCHANGED <<session, review>>
    /\ store_unchanged

NextEval ==
    \/ create_session
    \/ evaluate
    \/ dispute
    \/ refactor_evaluate
    \/ call_get_sm2_grade

SpecEval == InitEval /\ [][NextEval]_vars

----------------------------------------------------------------------------
(* The review handlers that take a grade: QuestionController               *)
(* .review_questions and ChallengeController.review_challenges, run by     *)
(* process 1 on a table that holds one due item.  The controller is        *)
(* constructed with its view; the ChallengeView of this repository has     *)
(* the workspace, editor, clipboard and grade prompts but none of the      *)
(* methods the API flow calls (clear_screen, show_evaluating_spinner,      *)
(* prompt_evaluation_action, ...), so both kinds of view are followed.     *)
(* A rating is counted in tenths here (2.7 is 27).                         *)

\* what the user can type at "Enter ... (0-3)"
GradeInputs == {"", "abc", "7", "0", "2.5", "3"}

\* current_ease_factor of the item under review
ReviewEase == {1300, 2500}

\* float(grade_input), in tenths
float(text) ==
    CASE text = "0" -> [returns |-> 0]
      [] text = "2.5" -> [returns |-> 25]
      [] text = "3" -> [returns |-> 30]
      [] text = "7" -> [returns |-> 70]
      [] OTHER -> ValueError

\* int(grade) of a non-negative float, as a whole number
int(grade) == grade \div 10

\* prompt_grade_input of QuestionView and of ChallengeView
prompt_grade_input(grade_input) ==
    IF grade_input = ""
    THEN None
    ELSE LET grade == float(grade_input)
         IN  IF grade = ValueError
             THEN None
             ELSE IF ~(0 <= grade.returns /\ grade.returns <= 30)
             THEN None
             ELSE grade.returns

\* calculate_next_review as Python computes it when the rating is a float
\* with one decimal: the adjustment 0.1 - (3 - r) * (0.08 + (3 - r) * 0.02)
\* in ten-thousandths
calculate_next_review_float(rating, current_interval, current_ease_factor) ==
    IF ~(0 <= rating /\ rating <= 30)
    THEN {ValueError}
    ELSE IF rating = 0
    THEN forgot_review(current_interval, current_ease_factor)
    ELSE LET ease_adjustment_float == 1000 - (30 - rating) * (140 - 2 * rating)
             new_ease_factor == 10 * current_ease_factor + ease_adjustment_float
         IN  {[interval |-> Max(1, n), ease_factor |-> 10 * h] :
                 n \in RoundNearest(current_interval * new_ease_factor, 10000),
                 h \in RoundNearest(new_ease_factor, 100)}

UserActions == {"accept", "dispute", "refactor"}

Mark(path, action, rating) ==
    [path |-> path, action |-> action, rating |-> rating]

cleanup_workspace(r) == [r EXCEPT !.cleanups = @ + 1]

\* finally: if evaluator: evaluator.close()
run_evaluation_loop_finally(r) ==
    [r EXCEPT !.evaluator = IF @ = "open" THEN "closed" ELSE @]

\* Variant of review_challenges_except that only reports the error (C27
\* must notice it).
review_challenges_except_reports(r, e) ==
    [r EXCEPT !.pc = "returned", !.error = e]

\* an exception leaving _run_evaluation_loop: except Exception cleans the
\* workspace up and raises again, the outer except Exception shows it
review_challenges_except(r, e) ==
    [cleanup_workspace(r) EXCEPT !.pc = "returned", !.error = e]

\* an exception other than a caught APIError inside the try of
\* _run_evaluation_loop
raised_in_try(r, e) ==
    review_challenges_except(run_evaluation_loop_finally(r), e)

\* the handler, or _run_evaluation_loop itself, runs to its end
returns(r) == [run_evaluation_loop_finally(r) EXCEPT !.pc = "returned"]

controller_unchanged ==
    UNCHANGED <<kind, interval, ease_factor, days_since_review, pc, args,
                result, today, utc_today, tz>>

InitReview ==
    /\ kind \in {"question", "challenge"}
    /\ interval = DefaultInterval
    /\ ease_factor = DefaultEase
    /\ days_since_review = Never
    /\ pc = "idle"
    /\ args = NoArgs
    /\ result = NoResult
    /\ \E e \in ReviewEase :
        store = <<[content |-> 0, testcases |-> 0, last_reviewed |-> 0,
                   interval |-> DefaultInterval, ease_factor |-> e]>>
    /\ held = [p \in Processes |-> NoObject]
    /\ today = 1
    /\ utc_today = 1
    /\ tz = 0
    /\ last_op = NoOp
    /\ session = NewSession
    /\ last_call = NoCall
    /\ \E has_api_methods, is_configured, use_clipboard_fallback \in BOOLEAN :
        review = [NoReview EXCEPT
                    !.has_api_methods = has_api_methods,
                    !.is_configured = is_configured,
                    !.use_clipboard_fallback = use_clipboard_fallback]

\* both handlers up to the selection prompt
review_select ==
    /\ review.pc = "idle"
    /\ get_due(1)

\* QuestionController.review_questions from the answer editor on
review_questions_grade(grade_input) ==
    /\ kind = "question"
    /\ review.pc = "idle"
    /\ held[1].pc = "selected"
    /\ LET grade == prompt_grade_input(grade_input)
       IN  IF grade = None
           THEN /\ review' = [review EXCEPT !.pc = "returned"]
                /\ UNCHANGED <<store, held, last_op>>
           ELSE /\ mark_reviewed_with(1, <<int(grade)>>,
                        calculate_next_review(int(grade), held[1].interval,
                                              held[1].ease_factor))
                /\ review' = [review EXCEPT
                        !.pc = "returned",
                        !.marks = Append(@, Mark("question", "none",
                                                 10 * int(grade))),
                        !.error = IF last_op'.outcome = "ok"
                                  THEN "none" ELSE last_op'.outcome]
    /\ UNCHANGED <<session, last_call>>
    /\ controller_unchanged

\* review_challenges: view.setup_challenge_workspace, which raises
\* ValueError for a language it has no files for
setup_challenge_workspace(outcome) ==
    /\ kind = "challenge"
    /\ review.pc = "idle"
    /\ held[1].pc = "selected"
    /\ review' = IF outcome = "ok"
                 THEN [review EXCEPT !.workspace = TRUE, !.pc = "workspace"]
                 ELSE [review EXCEPT !.pc = "returned", !.error = outcome]
    /\ UNCHANGED <<store, held, last_op, session, last_call>>
    /\ controller_unchanged

\* _run_evaluation_loop up to the first evaluation: the editor, then the
\* clipboard flow without an API key, else the service and its session
run_evaluation_loop(editor) ==
    /\ review.pc = "workspace"
    /\ IF editor # "ok"
       THEN /\ review' = review_challenges_except(review, editor)
            /\ UNCHANGED <<session, last_call>>
       ELSE IF ~review.is_configured
       THEN /\ review' = [review EXCEPT !.pc = "fallback"]
            /\ UNCHANGED <<session, last_call>>
       ELSE /\ review' = [review EXCEPT !.evaluator = "open",
                                        !.pc = "evaluate"]
            /\ session' = add_system_prompt(NewSession)
            /\ last_call' = Call("create_session", "ok", None)
    /\ UNCHANGED <<store, held, last_op>>
    /\ controller_unchanged

\* where a service call of the while loop leaves the controller
after_call(r, outcome, grade) ==
    IF outcome = "ok"
    THEN [r EXCEPT !.evaluated = Append(@, grade)]
    ELSE IF outcome = "APIError"
    THEN r
    ELSE raised_in_try(r, outcome)

\* _api_evaluation_loop up to the while loop: view.clear_screen(), the
\* first evaluation, and the except APIError of _run_evaluation_loop up to
\* its prompt
api_evaluate ==
    /\ review.pc = "evaluate"
    /\ IF ~review.has_api_methods
       THEN /\ review' = raised_in_try(review, "AttributeError")
            /\ UNCHANGED <<session, last_call>>
            /\ store_unchanged
       ELSE \E outcome \in Outcomes, grade \in Grades :
            /\ ask("evaluate", outcome, grade)
            /\ review' =
                IF outcome = "ok"
                THEN [after_call(review, outcome, grade) EXCEPT !.pc = "prompt"]
                ELSE IF outcome = "APIError"
                THEN IF review.use_clipboard_fallback
                     THEN [review EXCEPT !.pc = "api_error"]
                     ELSE returns(cleanup_workspace(review))
                ELSE after_call(review, outcome, grade)

\* except APIError: view.prompt_fallback_to_clipboard()
prompt_fallback_to_clipboard(answer) ==
    /\ review.pc = "api_error"
    /\ review' = IF answer
                 THEN [review EXCEPT !.pc = "fallback"]
                 ELSE returns(cleanup_workspace(review))
    /\ UNCHANGED <<store, held, last_op, session, last_call>>
    /\ controller_unchanged

\* mark_reviewed of the repository as the controller calls it, and what
\* follows: the workspace is cleaned up, or the raise leaves the try
controller_mark_reviewed(r, path, rating) ==
    /\ mark_reviewed_with(1, <<rating>>,
            calculate_next_review_float(rating, held[1].interval,
                                        held[1].ease_factor))
    /\ LET marked == [r EXCEPT
                        !.marks = Append(@, Mark(path, r.action, rating))]
       IN  review' = IF last_op'.outcome = "ok"
                     THEN returns(cleanup_workspace(marked))
                     ELSE raised_in_try(marked, last_op'.outcome)

\* _fallback_clipboard_evaluation
fallback_clipboard_evaluation(grade_input) ==
    /\ review.pc = "fallback"
    /\ LET grade == prompt_grade_input(grade_input)
       IN  IF grade = None
           THEN /\ review' = returns(cleanup_workspace(review))
                /\ UNCHANGED <<store, held, last_op>>
           ELSE controller_mark_reviewed(review, "clipboard", grade)
    /\ UNCHANGED <<session, last_call>>
    /\ controller_unchanged

\* one round of the while loop, action ACCEPT
accept ==
    /\ review.pc = "prompt"
    /\ LET grade == get_sm2_grade(session)
           accepting == [review EXCEPT !.action = "accept"]
       IN  IF grade = ValueError
           THEN /\ last_call' = Call("get_sm2_grade", "ValueError", None)
                /\ review' = raised_in_try(accepting, "ValueError")
                /\ UNCHANGED <<store, held, last_op>>
           ELSE /\ last_call' = Call("get_sm2_grade", "ok", grade.returns)
                /\ controller_mark_reviewed(accepting, "api", grade.returns)
    /\ UNCHANGED session
    /\ controller_unchanged

\* one round of the while loop, action DISPUTE: nothing is sent without a
\* reason
prompt_dispute_reason(dispute_reason) ==
    /\ review.pc = "prompt"
    /\ LET disputing == [review EXCEPT !.action = "dispute"]
       IN  IF dispute_reason = ""
           THEN /\ review' = disputing
                /\ UNCHANGED <<session, last_call>>
                /\ store_unchanged
           ELSE \E outcome \in Outcomes, grade \in Grades :
                /\ ask("dispute", outcome, grade)
                /\ review' = after_call(disputing, outcome, grade)

\* one round of the while loop, action REFACTOR
refactor ==
    /\ review.pc = "prompt"
    /\ \E outcome \in Outcomes, grade \in Grades :
        /\ ask("refactor_evaluate", outcome, grade)
        /\ review' = after_call([review EXCEPT !.action = "refactor"],
                                outcome, grade)

NextReview ==
    \/ review_select
    \/ \E grade_input \in GradeInputs : review_questions_grade(grade_input)
    \/ \E outcome \in {"ok", "ValueError"} : setup_challenge_workspace(outcome)
    \/ \E editor \in {"ok", "Exception"} : run_evaluation_loop(editor)
    \/ api_evaluate
    \/ \E answer \in BOOLEAN : prompt_fallback_to_clipboard(answer)
    \/ \E grade_input \in GradeInputs :
            fallback_clipboard_evaluation(grade_input)
    \/ accept
    \/ \E dispute_reason \in {"", "wrong"} :
            prompt_dispute_reason(dispute_reason)
    \/ refactor

SpecReview == InitReview /\ [][NextReview]_vars

----------------------------------------------------------------------------
(* Claims about the engine called directly (SpecCalc).                     *)

Returned(fn) == pc = "returned" /\ args.fn = fn

\* C1 (as claimed): every result of calculate_next_review and of
\* calculate_mcq_review on valid inputs has interval >= 1 and ease factor
\* >= 1.3.
C1_EngineKeepsFloor ==
    (Returned("calculate_next_review") \/ Returned("calculate_mcq_review"))
        => /\ result.interval >= 1
           /\ result.ease_factor >= 1300

C6_IntervalMonotone ==
    Returned("calculate_next_review") =>
        \A r \in Ratings :
            \A other \in calculate_next_review(r, args.current_interval,
                                               args.current_ease_factor) :
                /\ r < args.rating => other.interval <= result.interval
                /\ r > args.rating => other.interval >= result.interval

\* C6 witness: interval 10 at ease 2.5 rated 1 gives 24, below the 25 and 26
\* of ratings 2 and 3 and above the 1 of rating 0.
C6_Witness ==
    /\ Returned("calculate_next_review")
    /\ args.rating = 1
    /\ args.current_interval = 10
    /\ args.current_ease_factor = 2500
    /\ result.interval = 24
    /\ calculate_next_review(0, 10, 2500) = {[interval |-> 1, ease_factor |-> 2300]}
    /\ \E o \in calculate_next_review(3, 10, 2500) : o.interval = 26

\* the rating C7 names for each answer
C7_Rating(is_correct, confidence_level) ==
    CASE is_correct /\ confidence_level = "high" -> 3
      [] is_correct /\ confidence_level = "medium" -> 2
      [] is_correct /\ confidence_level = "low" -> 1
      [] ~is_correct -> 0

\* C7: calculate_mcq_review maps (correct, high) to 3, (correct, medium) to
\* 2, (correct, low) to 1 and every incorrect answer to 0, and except for
\* (incorrect, high) it returns what calculate_next_review returns for that
\* rating.
C7_McqDelegates ==
    Returned("calculate_mcq_review") =>
        LET r == C7_Rating(args.is_correct, args.confidence_level)
            standard == calculate_next_review(r, args.current_interval,
                                              args.current_ease_factor)
        IN  /\ sm2_rating(args.is_correct, args.confidence_level) = r
            /\ ~(~args.is_correct /\ args.confidence_level = "high") =>
                    /\ result \in standard
                    /\ calculate_mcq_review(args.is_correct,
                                            args.confidence_level,
                                            args.current_interval,
                                            args.current_ease_factor)
                            = standard

\* C7 witness: a correct answer with medium confidence, (10, 2.5) to (25, 2.5).
C7_Witness ==
    /\ Returned("calculate_mcq_review")
    /\ args.is_correct
    /\ args.confidence_level = "medium"
    /\ args.current_interval = 10
    /\ args.current_ease_factor = 2500
    /\ result = [interval |-> 25, ease_factor |-> 2500]

\* C8: a wrong answer with high confidence returns interval 1 and the ease
\* factor max(1.3, r - 0.1), r being the ease factor max(1.3, current - 0.2)
\* of the rating-0 update; (10, 2.5) gives (1, 2.2).
C8_MisconceptionPenalty ==
    (/\ Returned("calculate_mcq_review")
     /\ ~args.is_correct
     /\ args.confidence_level = "high") =>
        /\ result.interval = 1
        /\ \A r \in calculate_next_review(0, args.current_interval,
                                          args.current_ease_factor) :
                /\ r.ease_factor = Max(1300, args.current_ease_factor - 200)
                /\ result.ease_factor = Max(1300, r.ease_factor - 100)
        /\ (args.current_interval = 10 /\ args.current_ease_factor = 2500)
                => result = [interval |-> 1, ease_factor |-> 2200]

\* C8 witness: the example of the claim.
C8_Witness ==
    /\ Returned("calculate_mcq_review")
    /\ ~args.is_correct
    /\ args.confidence_level = "high"
    /\ args.current_interval = 10
    /\ args.current_ease_factor = 2500
    /\ result = [interval |-> 1, ease_factor |-> 2200]

\* C9: when E - 0.3 > 1.3, a wrong answer with high confidence returns an
\* ease factor strictly below that of a wrong answer with low confidence
\* on the same (I, E), and both return interval 1.
C9_HighHarsherThanLow ==
    (/\ Returned("calculate_mcq_review")
     /\ ~args.is_correct
     /\ args.confidence_level = "high"
     /\ args.current_ease_factor - 300 > 1300) =>
        \A low \in calculate_mcq_review(FALSE, "low", args.current_interval,
                                        args.current_ease_factor) :
            /\ result.ease_factor < low.ease_factor
            /\ result.interval = 1
            /\ low.interval = 1

\* C9 witness: the smallest ease factor of the claim's range, 1.61: high
\* confidence gives 1.31, low confidence 1.41.
C9_Witness ==
    /\ Returned("calculate_mcq_review")
    /\ ~args.is_correct
    /\ args.confidence_level = "high"
    /\ args.current_ease_factor = 1610
    /\ result.ease_factor = 1310
    /\ \E low \in calculate_mcq_review(FALSE, "low", args.current_interval, 1610) :
            low.ease_factor = 1410

\* C10 (as claimed): a correct MCQ answer changes the ease factor by +0.05
\* with low confidence, +0.10 with medium, and the rating-3 adjustment
\* (+0.10) with high.
C10_ConfidenceWeighted ==
    (Returned("calculate_mcq_review") /\ args.is_correct) =>
        result.ease_factor = args.current_ease_factor
            + (CASE args.confidence_level = "low" -> 50
                 [] args.confidence_level = "medium" -> 100
                 [] args.confidence_level = "high" -> 100)

\* C10 (amended): calculate_mcq_review, which MCQRepository.mark_reviewed
\* uses, changes the ease factor of a correct answer by the standard
\* adjustment of the mapped rating: -0.14 (low), 0.00 (medium), +0.10
\* (high).  The +0.05 / +0.10 / rating-3 adjustments are those of the older
\* mark_reviewed_mcq of db/operations.py.
C10_StandardAdjustment ==
    /\ (Returned("calculate_mcq_review") /\ args.is_correct) =>
            result.ease_factor = args.current_ease_factor
                + (CASE args.confidence_level = "low" -> -140
                     [] args.confidence_level = "medium" -> 0
                     [] args.confidence_level = "high" -> 100)
    /\ (Returned("mark_reviewed_mcq") /\ args.is_correct) =>
            result.ease_factor = args.current_ease_factor
                + (CASE args.confidence_level = "low" -> 50
                     [] args.confidence_level = "medium" -> 100
                     [] args.confidence_level = "high" -> 100)

\* C10 witness: a correct answer with low confidence lowers 2.5 to 2.36.
C10_Witness ==
    /\ Returned("calculate_mcq_review")
    /\ args.is_correct
    /\ args.confidence_level = "low"
    /\ args.current_ease_factor = 2500
    /\ result.ease_factor = 2360

----------------------------------------------------------------------------
(* Claims about the stored item (Spec).                                    *)

\* C2 (as claimed): the stored ease factor is in [1.3, 3.0] in every state
\* reached by reviews from a new item.
C2_StoredEaseInRange ==
    /\ ease_factor >= EaseMin
    /\ ease_factor <= EaseMax

\* C3: the stored interval is an integer >= 1 in every state reached by
\* reviews from a new item.
C3_IntervalAtLeastOne ==
    /\ interval \in Int
    /\ interval >= 1

\* C3 witness: an MCQ item just reviewed whose interval has grown past 20.
C3_Witness ==
    /\ kind = "mcq"
    /\ days_since_review = 0
    /\ interval > 20

----------------------------------------------------------------------------
(* Claims about repeated rating 0 (SpecForgot).                            *)

\* C4: every rating-0 step returns interval 1 and ease factor
\* max(1.3, current - 0.2); fed back in, the ease factor reaches 1.3 and
\* the pair then stays (1, 1.3).
C4_ForgotConverges ==
    /\ [][/\ result'.interval = 1
          /\ result'.ease_factor = Max(1300, args.current_ease_factor - 200)
          /\ args'.current_interval = result'.interval
          /\ args'.current_ease_factor = result'.ease_factor]_vars
    /\ <>[](/\ args.current_interval = 1
            /\ args.current_ease_factor = 1300)

\* C4 witness: the fixed point, after a step that returned it.
C4_Witness ==
    /\ pc = "returned"
    /\ args.current_interval = 1
    /\ args.current_ease_factor = 1300
    /\ result = [interval |-> 1, ease_factor |-> 1300]

----------------------------------------------------------------------------
(* Claims about the due-date functions called directly (SpecCalc).         *)

\* C12: is_overdue is true for an item never reviewed, whatever the interval
\* and the date; for a reviewed item it is true exactly when current_date is
\* on or after last_reviewed + interval, so true on the due date itself and
\* false one day before it.
C12_IsOverdue ==
    Returned("is_overdue") =>
        LET D == args.last_reviewed_date
            N == args.interval_days
        IN  /\ D = Never => result.overdue
            /\ D # Never =>
                /\ result.overdue <=> args.current_date >= D + N
                /\ args.current_date = D + N => result.overdue
                /\ args.current_date = D + N - 1 => ~result.overdue

\* reviewed on day 2 with interval 5, asked on day 7: due today
C12_Witness ==
    /\ Returned("is_overdue")
    /\ args.last_reviewed_date = 2
    /\ args.interval_days = 5
    /\ args.current_date = 7
    /\ result.overdue

\* C13: days_overdue is infinity for an item never reviewed; for a reviewed
\* item it is max(0, current_date - (last_reviewed + interval)): never
\* negative, 0 on and before the due date, positive exactly after it.
C13_DaysOverdue ==
    Returned("days_overdue") =>
        LET D == args.last_reviewed_date
            due == D + args.interval_days
        IN  /\ D = Never => result = Infinity
            /\ D # Never =>
                /\ ~result.infinite
                /\ result.days = Max(0, args.current_date - due)
                /\ result.days >= 0
                /\ args.current_date <= due => result.days = 0
                /\ args.current_date > due <=> result.days > 0

\* reviewed on day 0 with interval 5, asked on day 10: 5 days overdue
C13_Witness ==
    /\ Returned("days_overdue")
    /\ args.last_reviewed_date = 0
    /\ args.interval_days = 5
    /\ args.current_date = 10
    /\ result = [infinite |-> FALSE, days |-> 5]

----------------------------------------------------------------------------
(* Claims about the stored items (SpecStore, SpecEdit, SpecRace).          *)

\* an answer the engine does not accept: a rating outside 0..3, or a
\* confidence level other than the three known ones
rejected_answer(answer) ==
    \/ Len(answer) = 1 /\ (answer[1] < 0 \/ answer[1] > 3)
    \/ Len(answer) = 2 /\ answer[2] \notin {"low", "medium", "high"}

\* C11: calculate_next_review fails for every rating outside [0, 3] and
\* calculate_mcq_review for every confidence level outside low, medium,
\* high; when a repository's mark_reviewed meets that failure, neither the
\* object in memory nor the stored row has changed.
C11_RejectedBeforeAnyChange ==
    /\ \A rating \in InvalidRatings, i \in IntervalMin..MaxCalcInterval,
          e \in EaseGrid :
            calculate_next_review(rating, i, e) = {ValueError}
    /\ \A is_correct \in BOOLEAN, c \in InvalidConfidence,
          i \in IntervalMin..MaxCalcInterval, e \in EaseGrid :
            calculate_mcq_review(is_correct, c, i, e) = {ValueError}
    /\ [][\A p \in Processes :
            (/\ held[p].pc = "selected"
             /\ held'[p].pc \in {"done", "raised"}
             /\ rejected_answer(held'[p].answer))
            => /\ last_op'.outcome = "ValueError"
               /\ store' = store
               /\ held'[p].id = held[p].id
               /\ triple(held'[p]) = triple(held[p])]_vars

\* a challenge or question rated 4: raised, object and row as they were
C11_Witness ==
    /\ held[1].pc = "raised"
    /\ held[1].answer = <<4>>
    /\ last_op.outcome = "ValueError"
    /\ held[1].id \in LiveIds
    /\ triple(store[held[1].id]) = triple(held[1])

\* a is at least as overdue as b
overdue_geq(a, b) == a.infinite \/ (~b.infinite /\ a.days >= b.days)

\* C14 (as claimed): the due query of each repository returns exactly the
\* stored items for which is_overdue holds on the current day, ordered by
\* days_overdue descending with the never-reviewed items first.
C14_DueQueryIsOverdue ==
    last_op.op = "get_due" =>
        LET listing == last_op.listing
            overdue(i) == days_overdue(store[i].last_reviewed,
                                       store[i].interval, today)
        IN  /\ last_op.outcome = "ok"
            /\ {listing[n] : n \in DOMAIN listing}
                 = {i \in LiveIds : is_overdue(store[i].last_reviewed,
                                               store[i].interval, today)}
            /\ \A m, n \in DOMAIN listing :
                    m < n => overdue_geq(overdue(listing[m]),
                                         overdue(listing[n]))

\* C15 (as claimed): every newly created item of any kind starts with
\* interval 1, ease factor 2.5 and last_reviewed never, and is due on its
\* creation day.
C15_CreatedNeverReviewed ==
    last_op.op = "add" =>
        LET row == store[last_op.id]
        IN  /\ row.interval = 1
            /\ row.ease_factor = 2500
            /\ row.last_reviewed = Never
            /\ is_overdue(row.last_reviewed, row.interval, today)

\* C15 (corrected): every newly created item starts with interval 1 and
\* ease factor 2.5; a question starts never reviewed and is due at once; an
\* MCQ question or a challenge starts with last_reviewed = its creation
\* day, is not due on that day and is due from the next day on.
C15_CreatedDefaults ==
    last_op.op = "add" =>
        LET row == store[last_op.id]
        IN  /\ row.interval = 1
            /\ row.ease_factor = 2500
            /\ kind = "question" =>
                /\ row.last_reviewed = Never
                /\ is_overdue(row.last_reviewed, row.interval, today)
                /\ due_where(row)
            /\ kind # "question" =>
                /\ row.last_reviewed = today
                /\ ~is_overdue(row.last_reviewed, row.interval, today)
                /\ is_overdue(row.last_reviewed, row.interval, today + 1)

\* an MCQ question added on day 1
C15_Witness ==
    /\ last_op.op = "add"
    /\ kind = "mcq"
    /\ today = 1
    /\ store[last_op.id].last_reviewed = 1

\* C16 (as claimed): the three scheduling fields of a stored item change
\* only in a review of that item, which leaves its content and every other
\* item as they were; no other operation on the store changes them.
C16_OnlyReviewsReschedule ==
    [][\A i \in DOMAIN store :
        (store[i] # Deleted /\ store'[i] # Deleted) =>
            /\ triple(store'[i]) # triple(store[i]) =>
                    (last_op'.op = "mark_reviewed" /\ last_op'.id = i)
            /\ last_op'.op = "mark_reviewed" =>
                /\ store'[i].content = store[i].content
                /\ store'[i].testcases = store[i].testcases
                /\ i # last_op'.id => store'[i] = store[i]]_vars

\* the engine on the answer a process gave
review_of(answer, current_interval, current_ease_factor) ==
    IF Len(answer) = 1
    THEN calculate_next_review(answer[1], current_interval,
                               current_ease_factor)
    ELSE calculate_mcq_review(answer[1], answer[2], current_interval,
                              current_ease_factor)

\* what the item added with the defaults holds after the two reviews
\* applied one after the other
sequential(first, second) ==
    UNION {
        {<<today, n2.interval, n2.ease_factor>> :
            n2 \in review_of(second, n1.interval, n1.ease_factor)} :
        n1 \in review_of(first, DefaultInterval, DefaultEase)}

\* C17 (as claimed): when two reviewers have reviewed the same item
\* concurrently, the stored triple is that of both reviews applied one
\* after the other in some order.
C17_NoLostUpdate ==
    (held[1].pc = "done" /\ held[2].pc = "done") =>
        triple(store[1]) \in sequential(held[1].answer, held[2].answer)
                             \cup sequential(held[2].answer, held[1].answer)

----------------------------------------------------------------------------
(* Claims about the evaluation session (SpecEval).                         *)

ServiceCalls == {"evaluate", "dispute", "refactor_evaluate"}

\* C18: first_grade is set by the first recorded evaluation and never
\* changes afterwards; current_grade is the grade recorded last; iteration
\* counts the recorded evaluations, whatever the sequence of evaluate,
\* dispute and refactor_evaluate calls.
C18_GradesAndIteration ==
    /\ session = NewSession
    /\ [][LET recorded == last_call'.op \in ServiceCalls
                            /\ last_call'.outcome = "ok"
          IN  /\ session.first_grade # None =>
                    session'.first_grade = session.first_grade
              /\ recorded =>
                    /\ session'.iteration = session.iteration + 1
                    /\ session'.current_grade = last_call'.grade
                    /\ session.first_grade = None =>
                            session'.first_grade = last_call'.grade
              /\ ~recorded =>
                    /\ session'.iteration = session.iteration
                    /\ session'.current_grade = session.current_grade
                    /\ session'.first_grade = session.first_grade]_vars

\* three evaluations recorded, the first 1.5 and the last 3.0
C18_Witness ==
    /\ session.iteration = 3
    /\ session.first_grade = 15
    /\ session.current_grade = 30
    /\ last_call.op = "dispute"

\* C19 (as claimed): get_sm2_grade returns the first grade converted to an
\* integer (2.7 gives 2) and raises when no evaluation has been recorded.
C19_Sm2GradeIsInteger ==
    last_call.op = "get_sm2_grade" =>
        IF session.first_grade = None
        THEN last_call.outcome = "ValueError"
        ELSE /\ last_call.outcome = "ok"
             /\ last_call.grade = (session.first_grade \div 10) * 10

\* system first, then user and assistant in turn
alternating(messages) ==
    /\ Len(messages) >= 1
    /\ messages[1] = "system"
    /\ \A n \in 2..Len(messages) :
            messages[n] = IF n % 2 = 0 THEN "user" ELSE "assistant"

\* C20: after create_session and k successful calls of evaluate, dispute or
\* refactor_evaluate in any order the history holds exactly 1 + 2k
\* messages: the system message, then user and assistant in turn.
C20_HistoryAlternates ==
    [][/\ last_call'.op = "create_session" => session'.messages = <<"system">>
       /\ (/\ last_call'.op \in ServiceCalls
           /\ last_call'.outcome = "ok"
           /\ alternating(session.messages)
           /\ Len(session.messages) = 1 + 2 * session.iteration)
          => /\ alternating(session'.messages)
             /\ session'.iteration = session.iteration + 1
             /\ Len(session'.messages) = 1 + 2 * session'.iteration]_vars

\* two successful calls: five messages
C20_Witness ==
    /\ session.iteration = 2
    /\ Len(session.messages) = 5
    /\ alternating(session.messages)
    /\ last_call.op = "refactor_evaluate"
    /\ last_call.outcome = "ok"

----------------------------------------------------------------------------
(* Claims about the best answers (SpecCalc).                               *)

\* a call of the engine with the best answer: rating 3, or a correct MCQ
\* answer given with high confidence
easy_review ==
    \/ Returned("calculate_next_review") /\ args.rating = 3
    \/ /\ Returned("calculate_mcq_review")
       /\ args.is_correct
       /\ args.confidence_level = "high"

\* C24 (as claimed): for every current interval >= 1 and ease factor in
\* [1.3, 3.0], a rating-3 review, and equally a correct MCQ answer with
\* high confidence, returns an interval strictly greater than the current
\* one and an ease factor not less than the current one.
C24_EasyGrows ==
    easy_review =>
        /\ result.interval > args.current_interval
        /\ result.ease_factor >= args.current_ease_factor

\* C24 (corrected): such a review returns an ease factor not less than the
\* current one and an interval not less than the current one, strictly
\* greater whenever current_interval * (ease factor + 0.1) is more than
\* current_interval + 0.5: for every interval >= 2, and for interval 1 when
\* the ease factor is above 1.4.  Interval 1 with an ease factor below 1.4
\* stays at 1.
C24_EasyNeverShrinks ==
    easy_review =>
        LET I == args.current_interval
            E == args.current_ease_factor
        IN  /\ result.ease_factor >= E
            /\ result.interval >= I
            /\ I * (E + 100) > 1000 * I + 500 => result.interval > I
            /\ (I >= 2 \/ E > 1400) => result.interval > I
            /\ (I = 1 /\ E < 1400) => result.interval = 1

\* rating 3 on (1, 1.3): the interval stays 1, the ease factor is 1.4
C24_Witness ==
    /\ Returned("calculate_next_review")
    /\ args.rating = 3
    /\ args.current_interval = 1
    /\ args.current_ease_factor = 1300
    /\ result = [interval |-> 1, ease_factor |-> 1400]

----------------------------------------------------------------------------
(* Claims about MCQQuestion and chat_completion (SpecCalc).                *)

\* the letters of a sequence
letters(options) == {options[n] : n \in DOMAIN options}

\* C22 (as claimed): every successfully constructed MCQQuestion is
\* consistent with its type: a true_false question has no option_c or
\* option_d and its correct_option is a or b; an mcq question has all four
\* options non-empty; so the correct_option is one of the letters
\* get_available_options returns for it.
C22_ConsistentWithType ==
    (Returned("MCQQuestion") /\ result # ValidationError) =>
        /\ result.question_type = "true_false" =>
            /\ result.option_c = NoneValue
            /\ result.option_d = NoneValue
            /\ result.correct_option \in {"a", "b"}
        /\ result.question_type = "mcq" =>
            /\ truthy(result.option_c)
            /\ truthy(result.option_d)
        /\ result.correct_option \in letters(get_available_options(result))

\* a structural reading of the reply: it has choices[0].message.content
has_content(body) ==
    /\ body.t = "dict"
    /\ "choices" \in DOMAIN body.items
    /\ LET choices == body.items["choices"]
       IN  /\ choices.t = "list"
           /\ Len(choices.items) >= 1
           /\ LET first == choices.items[1]
              IN  /\ first.t = "dict"
                  /\ "message" \in DOMAIN first.items
                  /\ first.items["message"].t = "dict"
                  /\ "content" \in DOMAIN first.items["message"].items

\* C23 (as claimed): every failure of chat_completion (an HTTP error
\* status, a network error, a reply without choices[0].message.content) is
\* an APIError and nothing else; on success the content is returned.
C23_FailuresAreAPIError ==
    Returned("chat_completion") =>
        /\ result.raised \in {"none", "APIError"}
        /\ IF /\ args.transport = "ok"
              /\ args.status = 200
              /\ args.body # NotJson
              /\ has_content(args.body)
           THEN result = Returns(args.body.items["choices"].items[1]
                                     .items["message"].items["content"])
           ELSE result = Raises("APIError")

----------------------------------------------------------------------------
(* Claims about failed evaluation calls (SpecEval).                        *)

\* C30 (as claimed): a call of evaluate, dispute or refactor_evaluate that
\* fails (an API error, or a reply from which no grade can be extracted)
\* leaves the session as it was: first_grade, current_grade, iteration and
\* the message history.
C30_FailedCallLeavesSession ==
    [][(last_call'.op \in ServiceCalls /\ last_call'.outcome # "ok")
        => /\ session'.first_grade = session.first_grade
           /\ session'.current_grade = session.current_grade
           /\ session'.iteration = session.iteration
           /\ session'.messages = session.messages]_vars

----------------------------------------------------------------------------
(* Claims about reading back a reviewed item (Spec).                       *)

\* C28 (as claimed): every item written by mark_reviewed can be read back:
\* after any sequence of reviews the stored interval and ease factor meet
\* the item model's bounds (interval >= 1, 1.3 <= ease_factor <= 3.0), so
\* loading the row does not fail.
C28_ReviewedItemLoads ==
    [][days_since_review' = 0 =>
        /\ interval' >= IntervalMin
        /\ ease_factor' >= EaseMin
        /\ ease_factor' <= EaseMax
        /\ row_loads']_vars

----------------------------------------------------------------------------
(* Claims about the due set after a review (SpecStore).                    *)

\* the ids the due query returns
due_set == {i \in LiveIds : due_where(store[i])}

\* C29 (as claimed): a review made on day d makes the item not due on day d
\* and on every day before d + new_interval, and due from that day on; so
\* within one day each completed review of the review loop takes the
\* reviewed item out of the due set and adds none, and the loop ends after
\* at most as many reviews as there were due items.
C29_ReviewRemovesFromDue ==
    [][(last_op'.op = "mark_reviewed" /\ last_op'.outcome = "ok") =>
        LET id == last_op'.id
            row == store'[id]
        IN  /\ row.last_reviewed = today
            /\ \A d \in today..(today + row.interval + 1) :
                    is_overdue(row.last_reviewed, row.interval, d)
                        <=> d >= today + row.interval
            /\ id \notin due_set'
            /\ due_set' = due_set \ {id}
            /\ Cardinality(due_set') < Cardinality(due_set)]_vars

----------------------------------------------------------------------------
(* Claims about the review handlers that take a grade (SpecReview).        *)

\* the mark_reviewed calls made from _api_evaluation_loop
api_marks == {i \in DOMAIN review.marks : review.marks[i].path = "api"}

\* C21: in the API-based challenge review mark_reviewed is called only in
\* response to ACCEPT, at most once per review, and with the grade of the
\* session's first evaluation whatever later disputes and refactors were
\* graded; at ACCEPT a first grade exists, so get_sm2_grade never raises
\* there.
C21_AcceptMarksFirstGrade ==
    /\ \A i \in api_marks :
        /\ review.marks[i].action = "accept"
        /\ review.evaluated # <<>>
        /\ review.marks[i].rating = review.evaluated[1]
    /\ Cardinality(api_marks) <= 1
    /\ Len(review.marks) <= 1
    /\ last_call.op = "get_sm2_grade" => last_call.outcome = "ok"

\* C21 witness: the first evaluation gave 2.7, a dispute and a refactor
\* were graded 1.5 and 0.0, and ACCEPT handed 2.7 to mark_reviewed.
C21_Witness ==
    /\ review.pc = "returned"
    /\ review.evaluated = <<27, 15, 0>>
    /\ session.current_grade = 0
    /\ review.marks = <<Mark("api", "accept", 27)>>
    /\ last_call = Call("get_sm2_grade", "ok", 27)
    /\ last_op.op = "mark_reviewed"
    /\ last_op.outcome = "ok"

\* C26 (as claimed): every rating a review path hands to
\* calculate_next_review (question review, API-based challenge review,
\* clipboard-fallback challenge review) is one of the integers 0, 1, 2, 3.
C26_RatingsAreIntegers ==
    \A i \in DOMAIN review.marks : review.marks[i].rating \in {0, 10, 20, 30}

\* C27: when review_challenges has returned after the workspace was set
\* up, cleanup_workspace has been called for it, on every path, and an
\* evaluator that was created has been closed.
C27_WorkspaceCleanedUp ==
    (review.pc = "returned" /\ review.workspace) =>
        /\ review.cleanups >= 1
        /\ review.evaluator # "open"

\* C27 witness: a dispute whose reply carried no grade raised ValueError
\* out of the while loop; the evaluator was closed and the workspace
\* cleaned up once.
C27_Witness ==
    /\ review.pc = "returned"
    /\ review.workspace
    /\ review.error = "ValueError"
    /\ last_call = Call("dispute", "ValueError", None)
    /\ review.evaluator = "closed"
    /\ review.cleanups = 1
    /\ review.marks = <<>>

====
